---- MODULE Spec2Model ----
\* State-machine model of the user service in src/main.py over the table
\* declared in src/models.py.  Each request runs in a slot r: get_db opens a
\* session, the handler runs up to each await of a storage operation, and the
\* finally block of get_db closes the session.  The storage engine executes
\* each statement (SELECT, INSERT, UPDATE, DELETE with its commit) atomically.
\* Statements are read as the SQLAlchemy/passlib/FastAPI calls they name.
EXTENDS Integers, Sequences, FiniteSets, TLC

\* ---------------------------------------------------------------- bounds
MaxNames == 2
MaxPw == 2
MaxId == 3
MaxSkip == 2
MaxLimit == 2
MaxUsers == 5
NReq == 2

\* ------------------------------------------------------ program constants
NoValue == 0
Absent == -1
DefaultSkip == 0
DefaultLimit == 10

Reqs == 1..NReq
Names == 1..MaxNames
Plaintexts == 1..MaxPw
Ids == 1..MaxId

VARIABLES users, inserted, pc, op, arg, obj, resp, sess

vars == <<users, inserted, pc, op, arg, obj, resp, sess>>

\* ------------------------------------------------------------- passwords
\* A password string is modelled by its content: the scheme prefix it
\* carries ("" for a string that is no bcrypt hash) and the secret it encodes.
Str(p) == [scheme |-> "", secret |-> p]

NoPw == Str(NoValue)

\* pwd_context.hash: a bcrypt hash string of the secret.
hash(p) == [scheme |-> "2b", secret |-> p]

\* pwd_context.verify: "unknown" when the stored string is not a hash of a
\* scheme of the context (passlib raises UnknownHashError), else the match.
verify(p, h) ==
    IF h.scheme # "2b" THEN "unknown"
    ELSE IF h.secret = p THEN "true" ELSE "false"

\* ------------------------------------------------------------ the table
Columns == {"id", "username", "email", "password"}

Row(u, e, p) == [username |-> u, email |-> e, password |-> p]

EmptyTable == [i \in {} |-> Row(NoValue, NoValue, NoPw)]

MaxOf(S) == IF S = {} THEN 0 ELSE CHOOSE m \in S : \A x \in S : x <= m

\* SQLite rowid of a new row: one more than the largest rowid in the table.
NextId(t) == MaxOf(DOMAIN t) + 1

UniqueUsernameOnly(t, id, row) ==
    \A j \in DOMAIN t \ {id} : t[j].username # row.username

\* The unique constraints of username and email: may `row` be stored as id?
UniqueOk(t, id, row) ==
    \A j \in DOMAIN t \ {id} :
        t[j].username # row.username /\ t[j].email # row.email

InsertRow(t, id, row) == [i \in DOMAIN t \cup {id} |-> IF i = id THEN row ELSE t[i]]

DeleteRowKeep(t, id) == t

DeleteRow(t, id) == [i \in DOMAIN t \ {id} |-> t[i]]

\* ------------------------------------------------------------- ORM object
Obj(id, row, dirty) ==
    [id |-> id, username |-> row.username, email |-> row.email,
     password |-> row.password, dirty |-> dirty]

NoObj == Obj(0, Row(NoValue, NoValue, NoPw), {})

\* UserOutput: the response model, UserCreateUpdate's fields plus id.
UserOutputFields == {"username", "email", "password"} \cup {"id"}

Full(id, row) ==
    [id |-> id, username |-> row.username, email |-> row.email,
     password |-> row.password]

UserOutput(id, row) == [f \in UserOutputFields |-> Full(id, row)[f]]

\* ------------------------------------------------------------- responses
Resp(status, detail, body, sub) ==
    [status |-> status, detail |-> detail, body |-> body, sub |-> sub]

NoResp == Resp(0, "", <<>>, NoValue)

Ok(body) == Resp(200, "", body, NoValue)

HTTPException(status, detail) == Resp(status, detail, <<>>, NoValue)

\* An exception no handler catches: the framework answers 500.
ServerError == Resp(500, "Internal Server Error", <<>>, NoValue)

\* A request the framework rejects before the handler runs.
RequestValidationError == Resp(422, "field required", <<>>, NoValue)

\* create_access_token: the claims of the signed token (its subject).
create_access_token(sub) == Resp(200, "", <<>>, sub)

\* ------------------------------------------------------------- requests
NoArg ==
    [id |-> 0, username |-> NoValue, email |-> NoValue, password |-> NoValue,
     skip |-> 0, limit |-> 0, sort_by |-> "", order |-> ""]

\* UserCreateUpdate: all three fields are required.
UserCreateUpdate(a) ==
    a.username # NoValue /\ a.email # NoValue /\ a.password # NoValue

Opt(S) == S \cup {NoValue}

Bodies == {[NoArg EXCEPT !.username = u, !.email = e, !.password = p] :
              u \in Opt(Names), e \in Opt(Names), p \in Opt(Plaintexts)}

SortByInputs == Columns \cup {"bogus"}

\* Query(default): the declared default when the parameter is not sent.
Query(v, default) == IF v = Absent THEN default ELSE v

Requests ==
    {[op |-> "create_user", arg |-> b] : b \in Bodies}
    \cup {[op |-> "get_user", arg |-> [NoArg EXCEPT !.id = i]] : i \in Ids}
    \cup {[op |-> "get_all_users",
           arg |-> [NoArg EXCEPT !.skip = Query(s, DefaultSkip),
                                 !.limit = Query(l, DefaultLimit)]] :
              s \in {Absent} \cup (0..MaxSkip), l \in {Absent} \cup (0..MaxLimit)}
    \cup {[op |-> "update_user", arg |-> [b EXCEPT !.id = i]] :
              b \in Bodies, i \in Ids}
    \cup {[op |-> "delete_user", arg |-> [NoArg EXCEPT !.id = i]] : i \in Ids}
    \cup {[op |-> "login_for_access_token",
           arg |-> [NoArg EXCEPT !.username = u, !.email = 1, !.password = p]] :
              u \in Names, p \in Plaintexts}
    \cup {[op |-> "filter_users",
           arg |-> [NoArg EXCEPT !.username = u, !.email = e,
                                 !.sort_by = s, !.order = o]] :
              u \in Opt(Names), e \in Opt({1}), s \in SortByInputs,
              o \in {"asc", "desc"}}

\* --------------------------------------------------------------- queries
\* The integer that orders the values of a column as the engine compares them.
SortKey(id, row, col) ==
    CASE col = "id" -> id
      [] col = "username" -> row.username
      [] col = "email" -> row.email
      [] col = "password" ->
            (IF row.password.scheme = "2b" THEN 0 ELSE MaxPw + 1)
            + row.password.secret

\* ORDER BY key: rows of equal keys stay in rowid order.
RECURSIVE order_by(_, _)
order_by(S, key) ==
    IF S = {} THEN <<>>
    ELSE LET m == CHOOSE x \in S : \A y \in S :
                     key[x] < key[y] \/ (key[x] = key[y] /\ x <= y)
         IN <<m>> \o order_by(S \ {m}, key)

\* A table scan without ORDER BY returns the rows in rowid order.
scan(S) == order_by(S, [i \in S |-> i])

Min(a, b) == IF a <= b THEN a ELSE b

OffsetLimitOffByOne(s, skip, limit) ==
    SubSeq(s, skip + 1, Min(Len(s), skip + limit + 1))

\* .offset(skip).limit(limit)
OffsetLimit(s, skip, limit) ==
    SubSeq(s, skip + 1, Min(Len(s), skip + limit))

Outputs(t, ids) == [i \in 1..Len(ids) |-> UserOutput(ids[i], t[ids[i]])]

\* ------------------------------------------------------------ initial state
Init ==
    /\ users = EmptyTable
    /\ inserted = <<>>
    /\ pc = [r \in Reqs |-> "idle"]
    /\ op = [r \in Reqs |-> ""]
    /\ arg = [r \in Reqs |-> NoArg]
    /\ obj = [r \in Reqs |-> NoObj]
    /\ resp = [r \in Reqs |-> NoResp]
    /\ sess = [r \in Reqs |-> "none"]

\* The handler of slot r returns or raises: its response is fixed, and
\* `touched` tells whether it sent a statement to the storage engine.
Return(r, response, touched) ==
    /\ pc' = [pc EXCEPT ![r] = "returned"]
    /\ resp' = [resp EXCEPT ![r] = response]
    /\ sess' = [sess EXCEPT ![r] = IF touched THEN "active" ELSE @]

Remove(s, id) == SelectSeq(s, LAMBDA i : i # id)

\* Creates whose INSERT has not run yet.
PendingCreates == {q \in Reqs : pc[q] = "open" /\ op[q] = "create_user"}

\* ------------------------------------------------------------- get_db
\* A request arrives: the dependency creates the session of the request.
get_db(r, Rs, maxid) ==
    /\ pc[r] \in {"idle", "done"}
    /\ \E q \in Rs :
        /\ q.op = "create_user" =>
               MaxOf(DOMAIN users) + Cardinality(PendingCreates) < maxid
        /\ op' = [op EXCEPT ![r] = q.op]
        /\ arg' = [arg EXCEPT ![r] = q.arg]
    /\ pc' = [pc EXCEPT ![r] = "open"]
    /\ sess' = [sess EXCEPT ![r] = "open"]
    /\ resp' = [resp EXCEPT ![r] = NoResp]
    /\ obj' = [obj EXCEPT ![r] = NoObj]
    /\ UNCHANGED <<users, inserted>>

get_db_close_on_success_only(r) ==
    /\ pc[r] = "returned"
    /\ pc' = [pc EXCEPT ![r] = "done"]
    /\ sess' = [sess EXCEPT ![r] = IF resp[r].status = 200 THEN "closed" ELSE @]
    /\ op' = [op EXCEPT ![r] = ""]
    /\ arg' = [arg EXCEPT ![r] = NoArg]
    /\ obj' = [obj EXCEPT ![r] = NoObj]
    /\ UNCHANGED <<users, inserted, resp>>

\* The finally block: the session is closed however the handler ended; what
\* it had not committed is rolled back with it.
get_db_finally(r) ==
    /\ pc[r] = "returned"
    /\ pc' = [pc EXCEPT ![r] = "done"]
    /\ sess' = [sess EXCEPT ![r] = "closed"]
    /\ op' = [op EXCEPT ![r] = ""]
    /\ arg' = [arg EXCEPT ![r] = NoArg]
    /\ obj' = [obj EXCEPT ![r] = NoObj]
    /\ UNCHANGED <<users, inserted, resp>>

\* The body does not fit UserCreateUpdate: the handler is never called.
validation_error(r) ==
    /\ pc[r] = "open"
    /\ op[r] \in {"create_user", "update_user"}
    /\ ~UserCreateUpdate(arg[r])
    /\ Return(r, RequestValidationError, FALSE)
    /\ UNCHANGED <<users, inserted, op, arg, obj>>

\* ------------------------------------------------------------- handlers
create_user(r) ==
    /\ pc[r] = "open"
    /\ op[r] = "create_user"
    /\ UserCreateUpdate(arg[r])
    /\ LET hashed_password == hash(arg[r].password)
           db_user == Row(arg[r].username, arg[r].email, hashed_password)
           id == NextId(users)
       IN IF UniqueOk(users, id, db_user)
          THEN /\ users' = InsertRow(users, id, db_user)
               /\ inserted' = Append(inserted, id)
               /\ Return(r, Ok(<<UserOutput(id, db_user)>>), TRUE)
          ELSE /\ UNCHANGED <<users, inserted>>
               /\ Return(r, ServerError, TRUE)
    /\ UNCHANGED <<op, arg, obj>>

get_user(r) ==
    /\ pc[r] = "open"
    /\ op[r] = "get_user"
    /\ LET user_id == arg[r].id
       IN IF user_id \notin DOMAIN users
          THEN Return(r, HTTPException(404, "NOT FOUND"), TRUE)
          ELSE Return(r, Ok(<<UserOutput(user_id, users[user_id])>>), TRUE)
    /\ UNCHANGED <<users, inserted, op, arg, obj>>

get_all_users(r) ==
    /\ pc[r] = "open"
    /\ op[r] = "get_all_users"
    /\ LET ids == OffsetLimit(scan(DOMAIN users), arg[r].skip, arg[r].limit)
       IN Return(r, Ok(Outputs(users, ids)), TRUE)
    /\ UNCHANGED <<users, inserted, op, arg, obj>>

\* update_user up to its commit: the row is loaded and every field of the
\* body is set on it as sent.
update_user_query(r) ==
    /\ pc[r] = "open"
    /\ op[r] = "update_user"
    /\ UserCreateUpdate(arg[r])
    /\ LET user_id == arg[r].id
       IN IF user_id \notin DOMAIN users
          THEN /\ Return(r, HTTPException(404, "NOT FOUND"), TRUE)
               /\ UNCHANGED obj
          ELSE LET old == users[user_id]
                   new == Row(arg[r].username, arg[r].email, Str(arg[r].password))
                   dirty == {c \in DOMAIN new : new[c] # old[c]}
               IN /\ obj' = [obj EXCEPT ![r] = Obj(user_id, new, dirty)]
                  /\ pc' = [pc EXCEPT ![r] = "loaded"]
                  /\ sess' = [sess EXCEPT ![r] = "active"]
                  /\ UNCHANGED resp
    /\ UNCHANGED <<users, inserted, op, arg>>

\* db.commit() and db.refresh(db_user) of update_user: one UPDATE of the
\* changed columns of the row with the object's id.
update_user_commit(r) ==
    /\ pc[r] = "loaded"
    /\ op[r] = "update_user"
    /\ LET id == obj[r].id
           present == id \in DOMAIN users
           new == [c \in DOMAIN users[id] |->
                      IF c \in obj[r].dirty THEN obj[r][c] ELSE users[id][c]]
       IN IF ~present
          THEN /\ UNCHANGED users
               /\ Return(r, ServerError, TRUE)
          ELSE IF UniqueOk(users, id, new)
          THEN /\ users' = [users EXCEPT ![id] = new]
               /\ Return(r, Ok(<<UserOutput(id, new)>>), TRUE)
          ELSE /\ UNCHANGED users
               /\ Return(r, ServerError, TRUE)
    /\ UNCHANGED <<inserted, op, arg, obj>>

delete_user_query(r) ==
    /\ pc[r] = "open"
    /\ op[r] = "delete_user"
    /\ LET user_id == arg[r].id
       IN IF user_id \notin DOMAIN users
          THEN /\ Return(r, HTTPException(404, "NOT FOUND"), TRUE)
               /\ UNCHANGED obj
          ELSE /\ obj' = [obj EXCEPT ![r] = Obj(user_id, users[user_id], {})]
               /\ pc' = [pc EXCEPT ![r] = "loaded"]
               /\ sess' = [sess EXCEPT ![r] = "active"]
               /\ UNCHANGED resp
    /\ UNCHANGED <<users, inserted, op, arg>>

\* db.delete(db_user) and db.commit(): one DELETE of the row with the
\* object's id.  When the row is gone already the ORM either only warns or
\* raises StaleDataError, depending on its version.
delete_user_commit(r) ==
    /\ pc[r] = "loaded"
    /\ op[r] = "delete_user"
    /\ LET id == obj[r].id
           snapshot == <<UserOutput(id, obj[r])>>
       IN IF id \in DOMAIN users
          THEN /\ users' = DeleteRow(users, id)
               /\ inserted' = Remove(inserted, id)
               /\ Return(r, Ok(snapshot), TRUE)
          ELSE /\ UNCHANGED <<users, inserted>>
               /\ \E raises \in BOOLEAN :
                    Return(r, IF raises THEN ServerError ELSE Ok(snapshot), TRUE)
    /\ UNCHANGED <<op, arg, obj>>

login_for_access_token(r) ==
    /\ pc[r] = "open"
    /\ op[r] = "login_for_access_token"
    /\ LET found == {i \in DOMAIN users : users[i].username = arg[r].username}
       IN IF found = {}
          THEN Return(r, HTTPException(400, "Incorrect"), TRUE)
          ELSE LET db_user == users[CHOOSE i \in found : TRUE]
                   verified == verify(arg[r].password, db_user.password)
               IN CASE verified = "unknown" -> Return(r, ServerError, TRUE)
                    [] verified = "false" ->
                          Return(r, HTTPException(400, "Incorrect"), TRUE)
                    [] verified = "true" ->
                          Return(r, create_access_token(db_user.username), TRUE)
    /\ UNCHANGED <<users, inserted, op, arg, obj>>

filter_users(r) ==
    /\ pc[r] = "open"
    /\ op[r] = "filter_users"
    /\ LET a == arg[r]
           S == {i \in DOMAIN users :
                    /\ a.username # NoValue => users[i].username = a.username
                    /\ a.email # NoValue => users[i].email = a.email}
           key == [i \in S |->
                      IF a.order = "desc" THEN 0 - SortKey(i, users[i], a.sort_by)
                      ELSE SortKey(i, users[i], a.sort_by)]
       IN IF a.sort_by \notin Columns
          THEN Return(r, ServerError, FALSE)
          ELSE Return(r, Ok(Outputs(users, order_by(S, key))), TRUE)
    /\ UNCHANGED <<users, inserted, op, arg, obj>>

\* ------------------------------------------------------- specifications
\* One request at a time, every operation, every shape of input.
Next ==
    \/ get_db(1, Requests, MaxId)
    \/ validation_error(1)
    \/ create_user(1)
    \/ get_user(1)
    \/ get_all_users(1)
    \/ update_user_query(1)
    \/ update_user_commit(1)
    \/ delete_user_query(1)
    \/ delete_user_commit(1)
    \/ login_for_access_token(1)
    \/ filter_users(1)
    \/ get_db_finally(1)

Spec == Init /\ [][Next]_vars

\* Concurrent requests that write: full bodies over the same few names.
FullBodies == {b \in Bodies : UserCreateUpdate(b) /\ b.password = 1}

ConcMaxId == MaxId - 1

ConcRequests ==
    {[op |-> "create_user", arg |-> b] : b \in FullBodies}
    \cup {[op |-> "update_user", arg |-> [b EXCEPT !.id = i]] :
              b \in {c \in FullBodies : c.username = c.email}, i \in 1..ConcMaxId}
    \cup {[op |-> "delete_user", arg |-> [NoArg EXCEPT !.id = i]] :
              i \in 1..ConcMaxId}

Handler(r) ==
    \/ create_user(r)
    \/ update_user_query(r)
    \/ update_user_commit(r)
    \/ delete_user_query(r)
    \/ delete_user_commit(r)

ConcNext ==
    \E r \in Reqs :
        \/ get_db(r, ConcRequests, ConcMaxId)
        \/ Handler(r)
        \/ get_db_finally(r)

\* The event loop resumes every coroutine whose awaited operation completed.
ConcSpec ==
    /\ Init
    /\ [][ConcNext]_vars
    /\ \A r \in Reqs : WF_vars(Handler(r) \/ get_db_finally(r))

\* One request at a time over a table of up to MaxUsers users.
PagedRequests ==
    {[op |-> "create_user",
      arg |-> [NoArg EXCEPT !.username = u, !.email = u, !.password = 1]] :
         u \in 1..MaxUsers}
    \cup {[op |-> "delete_user", arg |-> [NoArg EXCEPT !.id = i]] :
             i \in 1..(MaxUsers + 1)}
    \cup {[op |-> "get_all_users",
           arg |-> [NoArg EXCEPT !.skip = Query(s, DefaultSkip),
                                 !.limit = Query(l, DefaultLimit)]] :
              s \in {Absent} \cup (0..MaxSkip), l \in {Absent} \cup (0..MaxLimit)}

PagedNext ==
    \/ get_db(1, PagedRequests, MaxUsers + 1)
    \/ create_user(1)
    \/ get_all_users(1)
    \/ delete_user_query(1)
    \/ delete_user_commit(1)
    \/ get_db_finally(1)

PagedSpec == Init /\ [][PagedNext]_vars

\* One request at a time over full bodies: create, read, update, delete.
CrudRequests ==
    {[op |-> "create_user", arg |-> b] : b \in FullBodies}
    \cup {[op |-> "get_user", arg |-> [NoArg EXCEPT !.id = i]] : i \in Ids}
    \cup {[op |-> "update_user", arg |-> [b EXCEPT !.id = i]] :
              b \in FullBodies, i \in Ids}
    \cup {[op |-> "delete_user", arg |-> [NoArg EXCEPT !.id = i]] : i \in Ids}

CrudNext ==
    \/ get_db(1, CrudRequests, MaxId)
    \/ get_user(1)
    \/ Handler(1)
    \/ get_db_finally(1)

CrudSpec == Init /\ [][CrudNext]_vars

\* ------------------------------------------------------------ properties
\* C1: in every reachable state, under any interleaving of concurrent create,
\* update and delete requests, no two live rows share a username and no two
\* share an email.
UniqueUsernameEmail ==
    \A i, j \in DOMAIN users :
        i # j => /\ users[i].username # users[j].username
                 /\ users[i].email # users[j].email

\* Two overlapping creates with the same username and different emails: one
\* persisted, the other was refused by the storage engine.
CollidingCreatesWitness ==
    \E r, q \in Reqs :
        /\ r # q
        /\ pc[r] = "returned" /\ pc[q] = "returned"
        /\ op[r] = "create_user" /\ op[q] = "create_user"
        /\ arg[r].username = arg[q].username
        /\ arg[r].email # arg[q].email
        /\ resp[r].status = 200
        /\ resp[q].status = 500

\* C10: a request holds one open session from its start to its end and none
\* after it (on the error paths too), every open session is eventually
\* closed, and a request that fails changes nothing in the table.
SessionReleased ==
    /\ [](\A r \in Reqs :
            /\ pc[r] \in {"open", "loaded", "returned"} <=> sess[r] \in {"open", "active"}
            /\ pc[r] = "done" => sess[r] = "closed")
    /\ \A r \in Reqs : (sess[r] \in {"open", "active"}) ~> (sess[r] = "closed")
    /\ [][\A r \in Reqs :
            (pc[r] # "returned" /\ pc'[r] = "returned" /\ resp'[r].status # 200)
                => users' = users]_vars

\* A request that ended in 404 and whose session is closed.
FailedRequestClosedWitness ==
    \E r \in Reqs :
        pc[r] = "done" /\ sess[r] = "closed" /\ resp[r].status = 404

\* C2: the stored password of every row is the hashed form of a supplied
\* password and never the plaintext itself, after create and after update.
PasswordNeverPlaintext ==
    \A i \in DOMAIN users :
        /\ users[i].password \in {hash(p) : p \in Plaintexts}
        /\ users[i].password \notin {Str(p) : p \in Plaintexts}

\* A valid create whose username or email is that of a live row.
Collides(a) ==
    \E i \in DOMAIN users :
        users[i].username = a.username \/ users[i].email = a.email

\* C3: a create that collides on username or on email fails with
\* ConflictError (409) and leaves the table as it was.
CreateConflictIs409 ==
    [][\A r \in Reqs :
         (/\ pc[r] = "open" /\ op[r] = "create_user"
          /\ UserCreateUpdate(arg[r]) /\ Collides(arg[r])
          /\ pc'[r] = "returned")
            => (resp'[r].status = 409 /\ users' = users)]_vars

\* Does the login of slot r name a live user whose stored password verifies?
CredentialsGood(r) ==
    \E i \in DOMAIN users :
        /\ users[i].username = arg[r].username
        /\ verify(arg[r].password, users[i].password) = "true"

\* C4: a login that names no user and a login whose password does not
\* verify get one and the same AuthenticationError (400, same message); a
\* token, with subject = username, is issued only for good credentials.
LoginFailureUniform ==
    \A r \in Reqs :
        (pc[r] = "returned" /\ op[r] = "login_for_access_token") =>
            IF CredentialsGood(r)
            THEN resp[r] = create_access_token(arg[r].username)
            ELSE resp[r] = HTTPException(400, "Incorrect")

\* The fields a caller may sort by.
SortAllowlist == {"id", "username", "email"}

\* C5: filter with a sort field outside the allowlist fails with
\* ValidationError (400) and sends nothing to the storage engine.
SortByAllowlisted ==
    \A r \in Reqs :
        (/\ pc[r] = "returned" /\ op[r] = "filter_users"
         /\ arg[r].sort_by \notin SortAllowlist)
            => (resp[r].status = 400 /\ sess[r] = "open")

\* C6: an update that names only the email of an existing row (an email no
\* other row holds) succeeds and the row then carries that email.
PartialUpdateApplied ==
    \A r \in Reqs :
        (/\ pc[r] = "returned" /\ op[r] = "update_user"
         /\ arg[r].email # NoValue
         /\ arg[r].username = NoValue /\ arg[r].password = NoValue
         /\ arg[r].id \in DOMAIN users
         /\ \A j \in DOMAIN users \ {arg[r].id} : users[j].email # arg[r].email)
            => /\ resp[r].status = 200
               /\ users[arg[r].id].email = arg[r].email

\* C9: no response carries the password field of a user record.
NoPasswordInResponses ==
    \A r \in Reqs :
        \A k \in 1..Len(resp[r].body) : "password" \notin DOMAIN resp[r].body[k]

Max(a, b) == IF a >= b THEN a ELSE b

====
